---- MODULE Spec2Model ----
(***************************************************************************)
(* The three "Module 4" lesson scripts (SQLite, MySQL, PostgreSQL): each   *)
(* is a straight-line program of driver calls, SQL statements and pandas   *)
(* dataframe operations against one database.  The model has the database  *)
(* (committed state, the open connection's uncommitted view, the key       *)
(* generators), the script's position, its open connections and its        *)
(* dataframe variables.                                                    *)
(*                                                                         *)
(* Money is counted in cents (999.99 is 99999).  SQL NULL / pandas NaN is  *)
(* Null in a numeric column and NullT in a text column.                    *)
(***************************************************************************)
EXTENDS Integers, Sequences, FiniteSets, TLC

\* ------------------------------------------------------------- bounds
MaxRuns == 2      \* executions of one script
MaxFaults == 1    \* backend failures (connection lost, statement rejected)
MaxRows == 2      \* rows of a table that exists before a block runs

\* ------------------------------------------------------------- values
Null == -1
NullT == "<null>"

Backends == {"sqlite", "mysql", "postgres"}

BaseTables == {"Employees", "Departments", "Sales", "Inventory"}
DerivedTables == {"Employees_Updated", "Sales_Summary", "Employees_With_Bonus",
                  "Inventory_Cleaned", "Sales_Cleaned"}
Tables == BaseTables \cup DerivedTables

TextCols == {"Name", "Department", "DepartmentName", "Product", "ItemName", "Category"}

EmployeesCols == <<"EmployeeID", "Name", "Department", "Salary">>
DepartmentsCols == <<"DepartmentID", "DepartmentName">>
SalesCols == <<"SaleID", "Product", "Amount">>
InventoryCols == <<"ItemID", "ItemName", "Quantity">>

AliceSalary == 8500000
LaptopAmount == 99999
MouseAmount == 2999
LaptopUpdatedAmount == 109999
LaptopQuantity == 10
LaptopUpdatedQuantity == 15
FilledQuantity == 0
ReportThreshold == 50000
DeleteThreshold == 5000
SummaryThreshold == 100000
OutlierThreshold == 200000
RaisePercent == 110
BonusPercent == 5

AliceRow == [EmployeeID |-> 1, Name |-> "Alice", Department |-> "IT", Salary |-> AliceSalary]
ITRow == [DepartmentID |-> 1, DepartmentName |-> "IT"]
LaptopSale == [SaleID |-> 1, Product |-> "Laptop", Amount |-> LaptopAmount]
MouseSale == [SaleID |-> Null, Product |-> "Mouse", Amount |-> MouseAmount]
LaptopItem == [ItemID |-> 1, ItemName |-> "Laptop", Quantity |-> LaptopQuantity]
MouseItem == [ItemID |-> 2, ItemName |-> "Mouse", Quantity |-> Null]

\* A table: whether it exists, whether its first column is a primary key,
\* its columns and its rows in SELECT order.
NoTable == [exists |-> FALSE, pk |-> FALSE, cols |-> <<>>, rows |-> <<>>]
EmptyDatabase == [t \in Tables |-> NoTable]

\* A dataframe: columns and rows.
NoFrame == [cols |-> <<>>, rows |-> <<>>]
FrameVars == {"results", "result", "df", "df_sales", "df_updated", "df_joined",
              "df_extract", "df_transform", "etl_df", "df_inventory", "df_clean"}

IsNullAt(r, c) == IF c \in TextCols THEN r[c] = NullT ELSE r[c] = Null

ExtendRow(r, c, v) == [k \in (DOMAIN r) \cup {c} |-> IF k = c THEN v ELSE r[k]]

\* ------------------------------------------------------------- transforms
\* df['Salary'] = df['Salary'] * 1.10
ScaleSalary(F) ==
    [F EXCEPT !.rows = [i \in 1..Len(F.rows) |->
        [F.rows[i] EXCEPT !.Salary =
            IF @ = Null THEN Null ELSE (@ * RaisePercent) \div 100]]]

\* df.dropna(): drop every row that has a null in any column
DropNa(F) ==
    LET Complete(r) == \A i \in 1..Len(F.cols) : ~IsNullAt(r, F.cols[i])
    IN  [F EXCEPT !.rows = SelectSeq(F.rows, Complete)]

\* the order pandas sorts the group keys in
ProductOrder == <<"Laptop", "Mouse">>

RECURSIVE SumAmount(_)
\* sum of the Amount column, nulls skipped
SumAmount(rows) ==
    IF rows = <<>> THEN 0
    ELSE (IF Head(rows).Amount = Null THEN 0 ELSE Head(rows).Amount) + SumAmount(Tail(rows))

\* df.groupby('Product').agg({'Amount': 'sum'}).reset_index(): one row per
\* non-null Product, in key order, with the sum of its Amount values
GroupBySum(F) ==
    LET Of(p) == LET Is(r) == r.Product = p IN SelectSeq(F.rows, Is)
        Present(p) == Of(p) # <<>>
        Keys == SelectSeq(ProductOrder, Present)
    IN  [cols |-> <<"Product", "Amount">>,
         rows |-> [i \in 1..Len(Keys) |->
                     [Product |-> Keys[i], Amount |-> SumAmount(Of(Keys[i]))]]]

\* df[df['Amount'] > 1000]: a comparison with NaN is false
FilterGt1000(F) ==
    LET Keep(r) == r.Amount # Null /\ r.Amount > SummaryThreshold
    IN  [F EXCEPT !.rows = SelectSeq(F.rows, Keep)]

\* df['Bonus'] = df['Salary'] * 0.05
AddBonus(F) ==
    [cols |-> Append(F.cols, "Bonus"),
     rows |-> [i \in 1..Len(F.rows) |->
        ExtendRow(F.rows[i], "Bonus",
            IF F.rows[i].Salary = Null THEN Null
            ELSE (F.rows[i].Salary * BonusPercent) \div 100)]]

\* rows[i] agrees with rows[j] on every column of keys
SameOn(rows, keys, i, j) == \A k \in 1..Len(keys) : rows[i][keys[k]] = rows[j][keys[k]]

RECURSIVE KeepLastOf(_, _, _)
KeepLastOf(rows, keys, i) ==
    IF i > Len(rows) THEN <<>>
    ELSE (IF \E j \in (i + 1)..Len(rows) : SameOn(rows, keys, i, j) THEN <<>> ELSE <<rows[i]>>)
         \o KeepLastOf(rows, keys, i + 1)

KeepLast(rows, keys) == KeepLastOf(rows, keys, 1)

RECURSIVE KeepFirstOf(_, _, _)
KeepFirstOf(rows, keys, i) ==
    IF i > Len(rows) THEN <<>>
    ELSE (IF \E j \in 1..(i - 1) : SameOn(rows, keys, i, j) THEN <<>> ELSE <<rows[i]>>)
         \o KeepFirstOf(rows, keys, i + 1)

\* DataFrame.drop_duplicates(subset=keys), keep='first': a row is dropped
\* when an earlier row agrees with it on the key columns (NaN equals NaN)
KeepFirst(rows, keys) == KeepFirstOf(rows, keys, 1)

\* df.drop_duplicates(subset=['Name'])
DropDuplicatesByName(F) == [F EXCEPT !.rows = KeepFirst(F.rows, <<"Name">>)]

\* df.drop_duplicates()
DropDuplicates(F) == [F EXCEPT !.rows = KeepFirst(F.rows, F.cols)]

FillNaNotAssigned(F) == F

\* df['Quantity'] = df['Quantity'].fillna(0)
FillNaQuantity(F) ==
    [F EXCEPT !.rows = [i \in 1..Len(F.rows) |->
        [F.rows[i] EXCEPT !.Quantity = IF @ = Null THEN FilledQuantity ELSE @]]]

\* df['Quantity'].astype(int) raises on a NaN
AstypeIntRaises(F) == \E i \in 1..Len(F.rows) : F.rows[i].Quantity = Null

\* df['Quantity'] = df['Quantity'].astype(int): the values are whole numbers already
AstypeInt(F) == F

FilterLeSummary(F) ==
    LET Keep(r) == r.Amount # Null /\ r.Amount <= SummaryThreshold
    IN  [F EXCEPT !.rows = SelectSeq(F.rows, Keep)]

\* df[df['Amount'] <= 2000]
FilterLe2000(F) ==
    LET Keep(r) == r.Amount # Null /\ r.Amount <= OutlierThreshold
    IN  [F EXCEPT !.rows = SelectSeq(F.rows, Keep)]

\* df['Category'] = 'Electronics'
AddCategory(F) ==
    [cols |-> Append(F.cols, "Category"),
     rows |-> [i \in 1..Len(F.rows) |-> ExtendRow(F.rows[i], "Category", "Electronics")]]

\* the transform a script line applies
Transform(fn, F) ==
    CASE fn = "scale_salary" -> ScaleSalary(F)
      [] fn = "dropna" -> DropNa(F)
      [] fn = "groupby_sum" -> GroupBySum(F)
      [] fn = "filter_gt_1000" -> FilterGt1000(F)
      [] fn = "add_bonus" -> AddBonus(F)
      [] fn = "drop_duplicates_name" -> DropDuplicatesByName(F)
      [] fn = "fillna_quantity" -> FillNaQuantity(F)
      [] fn = "drop_duplicates" -> DropDuplicates(F)
      [] fn = "astype_int" -> AstypeInt(F)
      [] fn = "filter_le_2000" -> FilterLe2000(F)
      [] fn = "add_category" -> AddCategory(F)

\* whether the transform raises on this dataframe
TransformRaises(fn, F) == fn = "astype_int" /\ AstypeIntRaises(F)

\* ------------------------------------------------------------- SQL
\* What differs between the scripts: whether the seed INSERTs name the key
\* (so that the ignore-on-conflict clause has a conflict to ignore), the kind
\* of join, how the backend treats DDL inside a transaction, and whether
\* pandas can store through the script's DBAPI connection (it speaks the
\* SQLite dialect to any connection that is not an SQLAlchemy one).
SqliteDialect == [name |-> "sqlite", keyed |-> TRUE, join |-> "inner",
                  ddl |-> "autocommit", dbapi_store |-> TRUE]
MysqlDialect == [name |-> "mysql", keyed |-> FALSE, join |-> "left",
                 ddl |-> "implicit_commit", dbapi_store |-> FALSE]
PostgresDialect == [name |-> "postgres", keyed |-> FALSE, join |-> "left",
                    ddl |-> "transactional", dbapi_store |-> FALSE]

Dialect(b) ==
    CASE b = "sqlite" -> SqliteDialect
      [] b = "mysql" -> MysqlDialect
      [] b = "postgres" -> PostgresDialect

SelectAll(t) == [kind |-> "all", table |-> t]
SelectSalesOver500 == [kind |-> "gt", table |-> "Sales", col |-> "Amount", val |-> ReportThreshold]
SelectJoin(d) == [kind |-> "join", left |-> (d.join = "left")]

\* the tables a query reads
QueryTables(q) == IF q.kind = "join" THEN {"Employees", "Sales"} ELSE {q.table}

\* SELECT e.Name, s.Product, s.Amount FROM Employees e [LEFT] JOIN Sales s
\* ON e.EmployeeID = s.SaleID, for one employee row
JoinRowsOf(e, sales, left) ==
    LET Match(s) == e.EmployeeID # Null /\ s.SaleID = e.EmployeeID
        hits == SelectSeq(sales, Match)
    IN  IF hits = <<>>
        THEN (IF left THEN <<[Name |-> e.Name, Product |-> NullT, Amount |-> Null]>> ELSE <<>>)
        ELSE [i \in 1..Len(hits) |->
                [Name |-> e.Name, Product |-> hits[i].Product, Amount |-> hits[i].Amount]]

RECURSIVE JoinRows(_, _, _)
JoinRows(emps, sales, left) ==
    IF emps = <<>> THEN <<>>
    ELSE JoinRowsOf(Head(emps), sales, left) \o JoinRows(Tail(emps), sales, left)

\* the result of a SELECT on database D, as a dataframe
EvalQuery(D, q) ==
    CASE q.kind = "all" -> [cols |-> D[q.table].cols, rows |-> D[q.table].rows]
      [] q.kind = "gt" ->
            LET Keep(r) == r[q.col] # Null /\ r[q.col] > q.val
            IN  [cols |-> D[q.table].cols, rows |-> SelectSeq(D[q.table].rows, Keep)]
      [] q.kind = "join" ->
            [cols |-> <<"Name", "Product", "Amount">>,
             rows |-> JoinRows(D["Employees"].rows, D["Sales"].rows, q.left)]

\* CREATE TABLE IF NOT EXISTS t (<first column> ... PRIMARY KEY, ...)
CreateTable(D, t, cols) ==
    IF D[t].exists THEN D
    ELSE [D EXCEPT ![t] = [exists |-> TRUE, pk |-> TRUE, cols |-> cols, rows |-> <<>>]]

RECURSIVE MaxKey(_, _)
MaxKey(rows, k) ==
    IF rows = <<>> THEN 0
    ELSE LET m == MaxKey(Tail(rows), k) IN IF Head(rows)[k] > m THEN Head(rows)[k] ELSE m

\* INSERT of one row.  keyed: the statement gives the key, and the
\* ignore-on-conflict clause drops the row when the key is taken; otherwise
\* the key is generated (nextid), which never conflicts.
InsertRow(T, row, keyed, nextid) ==
    LET k == T.cols[1]
    IN  IF keyed
        THEN (IF T.pk /\ \E i \in 1..Len(T.rows) : T.rows[i][k] = row[k]
              THEN T
              ELSE [T EXCEPT !.rows = Append(@, row)])
        ELSE [T EXCEPT !.rows = Append(@, [row EXCEPT ![k] = IF T.pk THEN nextid ELSE Null])]

\* UPDATE t SET col = val WHERE wcol = wval
UpdateRows(T, col, val, wcol, wval) ==
    [T EXCEPT !.rows = [i \in 1..Len(T.rows) |->
        IF T.rows[i][wcol] = wval THEN [T.rows[i] EXCEPT ![col] = val] ELSE T.rows[i]]]

\* DELETE FROM t WHERE col < val
DeleteRows(T, col, val) ==
    LET Keep(r) == ~(r[col] # Null /\ r[col] < val)
    IN  [T EXCEPT !.rows = SelectSeq(T.rows, Keep)]

StoreAppend(D, t, F) ==
    IF D[t].exists
    THEN [D EXCEPT ![t].rows = @ \o F.rows]
    ELSE [D EXCEPT ![t] = [exists |-> TRUE, pk |-> FALSE, cols |-> F.cols, rows |-> F.rows]]

StoreTableOnly(D, t, F) ==
    [x \in Tables |->
        IF x = t THEN [exists |-> TRUE, pk |-> FALSE, cols |-> F.cols, rows |-> F.rows]
        ELSE NoTable]

\* DataFrame.to_sql(t, ..., if_exists='replace', index=False): the table is
\* dropped if it exists and created again from the dataframe
StoreTable(D, t, F) ==
    [D EXCEPT ![t] = [exists |-> TRUE, pk |-> FALSE, cols |-> F.cols, rows |-> F.rows]]

StoreRaisesAfterDrop(D, t, F) == [D EXCEPT ![t] = NoTable]

\* the tables after a to_sql that raised on a pymysql or psycopg2 connection:
\* it raises on its first statement, before the DROP
StoreRaises(D, t, F) == D

\* ------------------------------------------------------------- the scripts
\* One record per statement of a script; the three scripts have the same
\* statements in the same order and differ in their dialect d.
L1Ex1(d) == <<
    [op |-> "connect"],
    [op |-> "create", table |-> "Employees", cols |-> EmployeesCols],
    [op |-> "commit"],
    [op |-> "insert", table |-> "Employees", row |-> AliceRow, keyed |-> d.keyed],
    [op |-> "commit"],
    [op |-> "query", query |-> SelectAll("Employees"), via |-> "dbapi", into |-> "results"],
    [op |-> "close"] >>

L1Ex2(d) == <<
    [op |-> "enter"],
    [op |-> "create", table |-> "Departments", cols |-> DepartmentsCols],
    [op |-> "commit"],
    [op |-> "insert", table |-> "Departments", row |-> ITRow, keyed |-> d.keyed],
    [op |-> "commit"],
    [op |-> "query", query |-> SelectAll("Departments"), via |-> "conn", into |-> "result"],
    [op |-> "exit"] >>

L1Ex3(d) == <<
    [op |-> "query", query |-> SelectAll("Employees"), via |-> "engine", into |-> "df"] >>

L2Ex1(d) == <<
    [op |-> "connect"],
    [op |-> "create", table |-> "Sales", cols |-> SalesCols],
    [op |-> "insert", table |-> "Sales", row |-> LaptopSale, keyed |-> d.keyed],
    [op |-> "commit"],
    [op |-> "query", query |-> SelectSalesOver500, via |-> "dbapi", into |-> "df_sales"],
    [op |-> "close"] >>

L2Ex2(d) == <<
    [op |-> "enter"],
    [op |-> "insert", table |-> "Sales", row |-> MouseSale, keyed |-> FALSE],
    [op |-> "update", table |-> "Sales", col |-> "Amount", val |-> LaptopUpdatedAmount,
        wcol |-> "Product", wval |-> "Laptop"],
    [op |-> "delete", table |-> "Sales", col |-> "Amount", val |-> DeleteThreshold],
    [op |-> "commit"],
    [op |-> "query", query |-> SelectAll("Sales"), via |-> "conn", into |-> "df_updated"],
    [op |-> "exit"] >>

L2Ex3(d) == <<
    [op |-> "query", query |-> SelectJoin(d), via |-> "engine", into |-> "df_joined"] >>

L3Ex1(d) == <<
    [op |-> "connect"],
    [op |-> "query", query |-> SelectAll("Employees"), via |-> "dbapi", into |-> "df_extract"],
    [op |-> "transform", fn |-> "scale_salary", from |-> "df_extract", into |-> "df_extract"],
    [op |-> "transform", fn |-> "dropna", from |-> "df_extract", into |-> "df_extract"],
    [op |-> "to_sql", from |-> "df_extract", table |-> "Employees_Updated", via |-> "dbapi"],
    [op |-> "close"] >>

L3Ex2FilterFirst(d) == <<
    [op |-> "query", query |-> SelectAll("Sales"), via |-> "engine", into |-> "df_extract"],
    [op |-> "transform", fn |-> "filter_gt_1000", from |-> "df_extract", into |-> "df_transform"],
    [op |-> "transform", fn |-> "groupby_sum", from |-> "df_transform", into |-> "df_transform"],
    [op |-> "to_sql", from |-> "df_transform", table |-> "Sales_Summary", via |-> "engine"] >>

L3Ex2(d) == <<
    [op |-> "query", query |-> SelectAll("Sales"), via |-> "engine", into |-> "df_extract"],
    [op |-> "transform", fn |-> "groupby_sum", from |-> "df_extract", into |-> "df_transform"],
    [op |-> "transform", fn |-> "filter_gt_1000", from |-> "df_transform", into |-> "df_transform"],
    [op |-> "to_sql", from |-> "df_transform", table |-> "Sales_Summary", via |-> "engine"] >>

L3Ex3(d) == <<
    [op |-> "query", query |-> SelectAll("Employees"), via |-> "engine", into |-> "etl_df"],
    [op |-> "transform", fn |-> "add_bonus", from |-> "etl_df", into |-> "etl_df"],
    [op |-> "transform", fn |-> "drop_duplicates_name", from |-> "etl_df", into |-> "etl_df"],
    [op |-> "to_sql", from |-> "etl_df", table |-> "Employees_With_Bonus", via |-> "engine"] >>

L4Ex1(d) == <<
    [op |-> "connect"],
    [op |-> "create", table |-> "Inventory", cols |-> InventoryCols],
    [op |-> "insert", table |-> "Inventory", row |-> LaptopItem, keyed |-> d.keyed],
    [op |-> "insert", table |-> "Inventory", row |-> MouseItem, keyed |-> d.keyed],
    [op |-> "commit"],
    [op |-> "query", query |-> SelectAll("Inventory"), via |-> "dbapi", into |-> "df_inventory"],
    [op |-> "transform", fn |-> "fillna_quantity", from |-> "df_inventory", into |-> "df_inventory"],
    [op |-> "to_sql", from |-> "df_inventory", table |-> "Inventory_Cleaned", via |-> "dbapi"],
    [op |-> "close"] >>

L4Ex2(d) == <<
    [op |-> "enter"],
    [op |-> "update", table |-> "Inventory", col |-> "Quantity", val |-> LaptopUpdatedQuantity,
        wcol |-> "ItemName", wval |-> "Laptop"],
    [op |-> "commit"],
    [op |-> "exit"],
    [op |-> "query", query |-> SelectAll("Inventory"), via |-> "engine", into |-> "df_clean"],
    [op |-> "transform", fn |-> "drop_duplicates", from |-> "df_clean", into |-> "df_clean"],
    [op |-> "transform", fn |-> "astype_int", from |-> "df_clean", into |-> "df_clean"] >>

L4Ex3InPlace(d) == <<
    [op |-> "query", query |-> SelectAll("Sales"), via |-> "engine", into |-> "df_sales"],
    [op |-> "transform", fn |-> "filter_le_2000", from |-> "df_sales", into |-> "df_sales"],
    [op |-> "transform", fn |-> "add_category", from |-> "df_sales", into |-> "df_sales"],
    [op |-> "to_sql", from |-> "df_sales", table |-> "Sales", via |-> "engine"] >>

L4Ex3(d) == <<
    [op |-> "query", query |-> SelectAll("Sales"), via |-> "engine", into |-> "df_sales"],
    [op |-> "transform", fn |-> "filter_le_2000", from |-> "df_sales", into |-> "df_sales"],
    [op |-> "transform", fn |-> "add_category", from |-> "df_sales", into |-> "df_sales"],
    [op |-> "to_sql", from |-> "df_sales", table |-> "Sales_Cleaned", via |-> "engine"] >>

\* the example blocks of a script, in order
Blocks(d) == << L1Ex1(d), L1Ex2(d), L1Ex3(d), L2Ex1(d), L2Ex2(d), L2Ex3(d),
                L3Ex1(d), L3Ex2(d), L3Ex3(d), L4Ex1(d), L4Ex2(d), L4Ex3(d) >>

RECURSIVE Flatten(_)
Flatten(ss) == IF ss = <<>> THEN <<>> ELSE Head(ss) \o Flatten(Tail(ss))

SqliteProgram == Flatten(Blocks(SqliteDialect))
MysqlProgram == Flatten(Blocks(MysqlDialect))
PostgresProgram == Flatten(Blocks(PostgresDialect))

Program(b) ==
    CASE b = "sqlite" -> SqliteProgram
      [] b = "mysql" -> MysqlProgram
      [] b = "postgres" -> PostgresProgram

ProgramLen == Len(SqliteProgram)

\* position of the first statement of block k, and the position after its last
BlockEntry(k) == 1 + Len(Flatten(SubSeq(Blocks(SqliteDialect), 1, k - 1)))
BlockStop(k) == BlockEntry(k) + Len(Blocks(SqliteDialect)[k])

\* ------------------------------------------------------------- state
VARIABLES
    scripts,  \* the scripts that are run
    entry,    \* position a run starts at
    stop,     \* position a run ends before
    pc,       \* per script: position of the next statement
    status,   \* per script: "idle", "running", "done" or "aborted"
    cause,    \* per script: why the run aborted ("none", "code" or "env")
    runs,     \* per script: runs started so far
    db,       \* per backend: the committed tables
    work,     \* per backend: the tables as the script's connection sees them
    serial,   \* per backend and table: next generated key (AUTO_INCREMENT, SERIAL)
    open,     \* per script: the connections it has open
    env,      \* per script: its dataframe variables
    faults,   \* backend failures so far
    atStart   \* per script: the committed tables when its current run started

vars == <<scripts, entry, stop, pc, status, cause, runs, db, work, serial, open, env, faults,
          atStart>>

Instr(b) == Program(b)[pc[b]]

At(b, o) == status[b] = "running" /\ Instr(b).op = o

\* the statement completed: on to the next one, or the run is over
Goes(b) ==
    /\ pc' = [pc EXCEPT ![b] = @ + 1]
    /\ status' = [status EXCEPT ![b] = IF pc[b] + 1 = stop THEN "done" ELSE "running"]
    /\ cause' = cause

RaiseSwallowed(b, c) ==
    /\ pc' = [pc EXCEPT ![b] = @ + 1]
    /\ status' = [status EXCEPT ![b] = IF pc[b] + 1 = stop THEN "done" ELSE "running"]
    /\ cause' = [cause EXCEPT ![b] = c]
    /\ open' = open
    /\ work' = work

\* The statement raised.  Nothing catches it: the script ends here.  A
\* connection of a with-block is closed by the block; one obtained from the
\* driver's connect() stays as it was, since its close() is a later statement.
\* Whatever the connection had not committed is lost.
Raise(b, c) ==
    /\ pc' = pc
    /\ status' = [status EXCEPT ![b] = "aborted"]
    /\ cause' = [cause EXCEPT ![b] = c]
    /\ open' = [open EXCEPT ![b] = @ \ {"conn"}]
    /\ work' = [work EXCEPT ![b] = db[b]]

\* python <script>: a new process
Start(b) ==
    /\ b \in scripts
    /\ \A o \in Backends : status[o] # "running"
    /\ runs[b] < MaxRuns
    /\ runs' = [runs EXCEPT ![b] = @ + 1]
    /\ pc' = [pc EXCEPT ![b] = entry]
    /\ status' = [status EXCEPT ![b] = "running"]
    /\ cause' = [cause EXCEPT ![b] = "none"]
    /\ open' = [open EXCEPT ![b] = {}]
    /\ work' = [work EXCEPT ![b] = db[b]]
    /\ env' = [env EXCEPT ![b] = [v \in FrameVars |-> NoFrame]]
    /\ atStart' = [atStart EXCEPT ![b] = db[b]]
    /\ UNCHANGED <<scripts, entry, stop, db, serial, faults>>

\* sqlite3.connect / pymysql.connect / psycopg2.connect
Connect(b) ==
    /\ At(b, "connect")
    /\ open' = [open EXCEPT ![b] = @ \cup {"dbapi"}]
    /\ work' = [work EXCEPT ![b] = db[b]]
    /\ Goes(b)
    /\ UNCHANGED <<atStart, scripts, entry, stop, runs, db, serial, env, faults>>

\* conn.close(): what was not committed is discarded
Close(b) ==
    /\ At(b, "close")
    /\ open' = [open EXCEPT ![b] = @ \ {"dbapi"}]
    /\ work' = [work EXCEPT ![b] = db[b]]
    /\ Goes(b)
    /\ UNCHANGED <<atStart, scripts, entry, stop, runs, db, serial, env, faults>>

\* with engine.connect() as conn:
Enter(b) ==
    /\ At(b, "enter")
    /\ open' = [open EXCEPT ![b] = @ \cup {"conn"}]
    /\ work' = [work EXCEPT ![b] = db[b]]
    /\ Goes(b)
    /\ UNCHANGED <<atStart, scripts, entry, stop, runs, db, serial, env, faults>>

\* the end of the with-block
Exit(b) ==
    /\ At(b, "exit")
    /\ open' = [open EXCEPT ![b] = @ \ {"conn"}]
    /\ work' = [work EXCEPT ![b] = db[b]]
    /\ Goes(b)
    /\ UNCHANGED <<atStart, scripts, entry, stop, runs, db, serial, env, faults>>

\* CREATE TABLE IF NOT EXISTS
ExecCreate(b) ==
    LET i == Instr(b)
        d == Dialect(b)
        W == CreateTable(work[b], i.table, i.cols)
    IN  /\ At(b, "create")
        /\ work' = [work EXCEPT ![b] = W]
        /\ db' = [db EXCEPT ![b] =
                    CASE d.ddl = "autocommit" -> IF work[b] = db[b] THEN W ELSE @
                      [] d.ddl = "implicit_commit" -> W
                      [] d.ddl = "transactional" -> @]
        /\ serial' = IF ~work[b][i.table].exists
                     THEN [serial EXCEPT ![b][i.table] = 1] ELSE serial
        /\ Goes(b)
        /\ UNCHANGED <<atStart, scripts, entry, stop, runs, open, env, faults>>

\* the key an INSERT that names no key gets
NextId(b, t) ==
    IF Dialect(b).name = "sqlite"
    THEN MaxKey(work[b][t].rows, work[b][t].cols[1]) + 1
    ELSE serial[b][t]

\* INSERT [OR IGNORE | IGNORE] INTO ... [ON CONFLICT DO NOTHING]
ExecInsert(b) ==
    LET i == Instr(b)
        T == work[b][i.table]
    IN  /\ At(b, "insert")
        /\ IF ~T.exists
           THEN Raise(b, "code") /\ UNCHANGED serial
           ELSE /\ work' = [work EXCEPT ![b][i.table] =
                                InsertRow(T, i.row, i.keyed, NextId(b, i.table))]
                /\ serial' = IF ~i.keyed /\ T.pk /\ Dialect(b).name # "sqlite"
                             THEN [serial EXCEPT ![b][i.table] = NextId(b, i.table) + 1]
                             ELSE serial
                /\ open' = open
                /\ Goes(b)
        /\ UNCHANGED <<atStart, scripts, entry, stop, runs, db, env, faults>>

\* UPDATE ... SET ... WHERE
ExecUpdate(b) ==
    LET i == Instr(b)
        T == work[b][i.table]
    IN  /\ At(b, "update")
        /\ IF ~T.exists
           THEN Raise(b, "code")
           ELSE /\ work' = [work EXCEPT ![b][i.table] = UpdateRows(T, i.col, i.val, i.wcol, i.wval)]
                /\ open' = open
                /\ Goes(b)
        /\ UNCHANGED <<atStart, scripts, entry, stop, runs, db, serial, env, faults>>

\* DELETE FROM ... WHERE
ExecDelete(b) ==
    LET i == Instr(b)
        T == work[b][i.table]
    IN  /\ At(b, "delete")
        /\ IF ~T.exists
           THEN Raise(b, "code")
           ELSE /\ work' = [work EXCEPT ![b][i.table] = DeleteRows(T, i.col, i.val)]
                /\ open' = open
                /\ Goes(b)
        /\ UNCHANGED <<atStart, scripts, entry, stop, runs, db, serial, env, faults>>

\* conn.commit()
Commit(b) ==
    /\ At(b, "commit")
    /\ db' = [db EXCEPT ![b] = work[b]]
    /\ Goes(b)
    /\ UNCHANGED <<atStart, scripts, entry, stop, runs, work, serial, open, env, faults>>

\* cursor.execute(SELECT) + fetchall, conn.execute(SELECT), pd.read_sql:
\* through the script's connection the query sees that connection's view,
\* through the engine it runs on a connection of its own
Query(b) ==
    LET i == Instr(b)
        D == IF i.via = "engine" THEN db[b] ELSE work[b]
    IN  /\ At(b, "query")
        /\ IF \E t \in QueryTables(i.query) : ~D[t].exists
           THEN Raise(b, "code") /\ env' = env
           ELSE /\ env' = [env EXCEPT ![b][i.into] = EvalQuery(D, i.query)]
                /\ UNCHANGED <<open, work>>
                /\ Goes(b)
        /\ UNCHANGED <<atStart, scripts, entry, stop, runs, db, serial, faults>>

\* a dataframe statement
ApplyTransform(b) ==
    LET i == Instr(b)
        F == env[b][i.from]
    IN  /\ At(b, "transform")
        /\ IF TransformRaises(i.fn, F)
           THEN Raise(b, "code") /\ env' = env
           ELSE /\ env' = [env EXCEPT ![b][i.into] = Transform(i.fn, F)]
                /\ UNCHANGED <<open, work>>
                /\ Goes(b)
        /\ UNCHANGED <<atStart, scripts, entry, stop, runs, db, serial, faults>>

\* DataFrame.to_sql(..., if_exists='replace'): through the engine it writes
\* and commits on a connection of its own; through the sqlite3 connection it
\* writes and commits on that connection; through a pymysql or psycopg2
\* connection its first statement (the sqlite_master lookup) raises
ToSql(b) ==
    LET i == Instr(b)
        F == env[b][i.from]
    IN  /\ At(b, "to_sql")
        /\ IF i.via = "dbapi" /\ ~Dialect(b).dbapi_store
           THEN Raise(b, "code") /\ db' = [db EXCEPT ![b] = StoreRaises(@, i.table, F)]
           ELSE /\ db' = [db EXCEPT ![b] =
                            StoreTable(IF i.via = "dbapi" THEN work[b] ELSE @, i.table, F)]
                /\ work' = [work EXCEPT ![b] = StoreTable(@, i.table, F)]
                /\ open' = open
                /\ Goes(b)
        /\ UNCHANGED <<atStart, scripts, entry, stop, runs, serial, env, faults>>

BackendOps == {"connect", "enter", "create", "insert", "update", "delete", "commit",
               "query", "to_sql"}

\* the backend fails the statement (unreachable, connection lost, rejected):
\* ConnectionError or QueryError, before the statement has any effect.  The
\* scripts' databases are disjoint, so failures are explored for a script
\* that is run on its own.
Fault(b) ==
    /\ status[b] = "running"
    /\ scripts = {b}
    /\ Instr(b).op \in BackendOps
    /\ faults < MaxFaults
    /\ faults' = faults + 1
    /\ Raise(b, "env")
    /\ UNCHANGED <<atStart, scripts, entry, stop, runs, db, serial, env>>

\* an empty database per backend; one script is run, or all three
Init ==
    /\ scripts \in {{b} : b \in Backends} \cup {Backends}
    /\ entry = 1
    /\ stop = ProgramLen + 1
    /\ pc = [b \in Backends |-> 1]
    /\ status = [b \in Backends |-> "idle"]
    /\ cause = [b \in Backends |-> "none"]
    /\ runs = [b \in Backends |-> 0]
    /\ db = [b \in Backends |-> EmptyDatabase]
    /\ work = [b \in Backends |-> EmptyDatabase]
    /\ serial = [b \in Backends |-> [t \in BaseTables |-> 1]]
    /\ open = [b \in Backends |-> {}]
    /\ env = [b \in Backends |-> [v \in FrameVars |-> NoFrame]]
    /\ faults = 0
    /\ atStart = db

Next ==
    \E b \in Backends :
        \/ Start(b)
        \/ Connect(b)
        \/ Close(b)
        \/ Enter(b)
        \/ Exit(b)
        \/ ExecCreate(b)
        \/ ExecInsert(b)
        \/ ExecUpdate(b)
        \/ ExecDelete(b)
        \/ Commit(b)
        \/ Query(b)
        \/ ApplyTransform(b)
        \/ ToSql(b)
        \/ Fault(b)

Spec == Init /\ [][Next]_vars

\* ------------------------------------------------------------- one block, any prior database
\* The blocks that extract, transform and load (lesson 2 example 2, lessons
\* 3 and 4), each run against a database that already holds tables.
EtlBlocks == {5, 7, 8, 9, 10, 11, 12}

TablesOf(i) ==
    CASE i.op = "query" -> QueryTables(i.query)
      [] i.op \in {"create", "insert", "update", "delete", "to_sql"} -> {i.table}
      [] OTHER -> {}

BlockTables(k) ==
    LET B == Blocks(SqliteDialect)[k] IN UNION {TablesOf(B[j]) : j \in 1..Len(B)}

SeqsUpTo(S, n) == UNION {[1..m -> S] : m \in 0..n}

\* rows numbered 1, 2, ... in their key column
Keyed(rows, k) == [i \in 1..Len(rows) |-> [rows[i] EXCEPT ![k] = i]]

BigAmount == OutlierThreshold + ReportThreshold

EmployeeChoices ==
    {[EmployeeID |-> 1, Name |-> n, Department |-> "IT", Salary |-> s] :
        n \in {"Alice", "Bob", NullT}, s \in {AliceSalary, Null}}
SaleChoices ==
    {[SaleID |-> 1, Product |-> p, Amount |-> a] :
        p \in {"Laptop", "Mouse"},
        a \in {MouseAmount, LaptopAmount, LaptopUpdatedAmount, BigAmount, Null}}
ItemChoices ==
    {[ItemID |-> 1, ItemName |-> n, Quantity |-> q] :
        n \in {"Laptop", "Mouse"}, q \in {LaptopQuantity, Null}}

\* a table some earlier program stored with to_sql
LegacyTable == [exists |-> TRUE, pk |-> FALSE, cols |-> <<"Legacy">>, rows |-> <<[Legacy |-> 0]>>]

\* the states table t can be in before a block runs: absent, or created by
\* the script's CREATE TABLE and holding up to MaxRows rows; Inventory may
\* also have been stored without a key, and then rows can repeat
PriorTables(t) ==
    {NoTable} \cup
    CASE t = "Employees" ->
            {[exists |-> TRUE, pk |-> TRUE, cols |-> EmployeesCols, rows |-> Keyed(r, "EmployeeID")] :
                r \in SeqsUpTo(EmployeeChoices, MaxRows)}
      [] t = "Sales" ->
            {[exists |-> TRUE, pk |-> TRUE, cols |-> SalesCols, rows |-> Keyed(r, "SaleID")] :
                r \in SeqsUpTo(SaleChoices, MaxRows)}
      [] t = "Inventory" ->
            {[exists |-> TRUE, pk |-> TRUE, cols |-> InventoryCols, rows |-> Keyed(r, "ItemID")] :
                r \in SeqsUpTo(ItemChoices, MaxRows)}
            \cup {[exists |-> TRUE, pk |-> FALSE, cols |-> InventoryCols, rows |-> r] :
                r \in SeqsUpTo(ItemChoices, MaxRows)}
      [] t \in DerivedTables -> {LegacyTable}
      [] OTHER -> {}

PriorOf(t, k) == IF t \in BlockTables(k) THEN PriorTables(t) ELSE {NoTable}

InitBlock ==
    \E b \in Backends, k \in EtlBlocks :
    \E e \in PriorOf("Employees", k), s \in PriorOf("Sales", k), i \in PriorOf("Inventory", k),
       o \in BOOLEAN :
        LET D == [t \in Tables |->
                    CASE t = "Employees" -> e
                      [] t = "Sales" -> s
                      [] t = "Inventory" -> i
                      [] t \in DerivedTables /\ t \in BlockTables(k) /\ o -> LegacyTable
                      [] OTHER -> NoTable]
        IN  /\ scripts = {b}
            /\ entry = BlockEntry(k)
            /\ stop = BlockStop(k)
            /\ pc = [x \in Backends |-> BlockEntry(k)]
            /\ status = [x \in Backends |-> "idle"]
            /\ cause = [x \in Backends |-> "none"]
            /\ runs = [x \in Backends |-> 0]
            /\ db = [x \in Backends |-> IF x = b THEN D ELSE EmptyDatabase]
            /\ work = db
            /\ serial = [x \in Backends |-> [t \in BaseTables |-> Len(db[x][t].rows) + 1]]
            /\ open = [x \in Backends |-> {}]
            /\ env = [x \in Backends |-> [v \in FrameVars |-> NoFrame]]
            /\ faults = 0
            /\ atStart = db

SpecBlock == InitBlock /\ [][Next]_vars

\* ------------------------------------------------------------- properties
Prev(b) == Program(b)[pc[b] - 1]

\* the script's last completed statement of this run is an o
After(b, o) == status[b] \in {"running", "done"} /\ pc[b] > entry /\ Prev(b).op = o

\* the script has just stored into table t
JustStored(b, t) == After(b, "to_sql") /\ Prev(b).table = t

\* C1: after a store completes, the destination table holds exactly the
\* columns and rows of the stored dataframe, whatever the table held before.
C1_StoreReplaces ==
    \A b \in Backends :
        After(b, "to_sql") =>
            LET T == db[b][Prev(b).table]
                F == env[b][Prev(b).from]
            IN  T.exists /\ T.cols = F.cols /\ T.rows = F.rows

\* a store has completed into a table that held other rows and another schema
C1_Witness ==
    \E b \in Backends :
        /\ After(b, "to_sql")
        /\ atStart[b][Prev(b).table] = LegacyTable
        /\ db[b][Prev(b).table].rows # <<>>

InScope(b, c) ==
    LET P == Program(b)
        opener == IF c = "dbapi" THEN "connect" ELSE "enter"
        closer == IF c = "dbapi" THEN "close" ELSE "exit"
    IN  /\ status[b] = "running"
        /\ \E j \in entry..(pc[b] - 1) :
              /\ P[j].op = opener
              /\ \A k \in (j + 1)..(pc[b] - 1) : P[k].op # closer

\* C3: a connection is open only while the operation that acquired it is in
\* progress; none is left open when that operation has ended, on any exit path.
C3_ConnectionsScoped == \A b \in Backends : \A c \in open[b] : InScope(b, c)

\* the step taken is a statement of script b raising
Raises(b) == cause[b] = "none" /\ cause'[b] # "none"

\* C4: a failing step ends the script at that step and leaves the committed
\* tables as they were; afterwards the script executes nothing and the
\* committed tables stay, until the script is run again.
C4_AbortKeepsCommitted ==
    [][\A b \in Backends :
          /\ Raises(b) => status'[b] = "aborted" /\ pc'[b] = pc[b] /\ db'[b] = db[b]
          /\ (status[b] = "aborted" /\ runs'[b] = runs[b]) =>
                status'[b] = "aborted" /\ pc'[b] = pc[b] /\ db'[b] = db[b] /\ env'[b] = env[b]
      ]_vars

\* a script stopped at a failing DELETE: the seed row committed before it is
\* in the database, the uncommitted INSERT and UPDATE of the same block are not
C4_Witness ==
    \E b \in Backends :
        /\ status[b] = "aborted"
        /\ Instr(b).op = "delete"
        /\ runs[b] = 1
        /\ db[b]["Sales"].rows = <<LaptopSale>>

\* the script's run has ended
Ended(b) == status[b] \in {"done", "aborted"}

\* C5: after the same number of runs from the same database state, the
\* three backends hold the same tables and the join produced the same rows.
C5_BackendsEquivalent ==
    \A b1, b2 \in Backends :
        (scripts = Backends /\ Ended(b1) /\ Ended(b2) /\ runs[b1] = runs[b2]) =>
            /\ \A t \in Tables : db[b1][t] = db[b2][t]
            /\ env[b1]["df_joined"] = env[b2]["df_joined"]

Products == {"Laptop", "Mouse"}

RECURSIVE TotalOf(_, _, _)
\* the sum of the Amount values of product p among the first n rows
TotalOf(rows, p, n) ==
    IF n = 0 THEN 0
    ELSE TotalOf(rows, p, n - 1)
         + (IF rows[n].Product = p /\ rows[n].Amount # Null THEN rows[n].Amount ELSE 0)

\* C6: Sales_Summary has a row for a product exactly when the sum of all
\* its Amount values in Sales is above 1000, one row per product, and the
\* row carries that sum: the filter applies to the totals, not to the rows.
C6_FilterOnTotals ==
    \A b \in Backends :
        JustStored(b, "Sales_Summary") =>
            LET src == db[b]["Sales"].rows
                out == db[b]["Sales_Summary"].rows
                n == Len(src)
            IN  /\ \A p \in Products :
                      (\E j \in 1..Len(out) : out[j].Product = p)
                          <=> (TotalOf(src, p, n) > SummaryThreshold)
                /\ \A j \in 1..Len(out) : out[j].Amount = TotalOf(src, out[j].Product, n)
                /\ \A j, k \in 1..Len(out) : out[j].Product = out[k].Product => j = k

\* two Laptop rows, none above 1000 on its own, are retained as one total
\* above 1000
C6_Witness ==
    \E b \in Backends :
        /\ JustStored(b, "Sales_Summary")
        /\ db[b]["Sales"].rows = <<[SaleID |-> 1, Product |-> "Laptop", Amount |-> LaptopAmount],
                                   [SaleID |-> 2, Product |-> "Laptop", Amount |-> MouseAmount]>>
        /\ db[b]["Sales_Summary"].rows =
              <<[Product |-> "Laptop", Amount |-> LaptopAmount + MouseAmount]>>

\* C7: after fillna(0) on Quantity the dataframe has the rows of Inventory,
\* in order: a null Quantity has become 0, every other value is unchanged,
\* and no Quantity is null.
C7_FillNull ==
    \A b \in Backends :
        (After(b, "transform") /\ Prev(b).fn = "fillna_quantity") =>
            LET src == work[b]["Inventory"].rows
                out == env[b]["df_inventory"].rows
            IN  /\ Len(out) = Len(src)
                /\ env[b]["df_inventory"].cols = InventoryCols
                /\ \A i \in 1..Len(out) :
                      /\ out[i].ItemID = src[i].ItemID
                      /\ out[i].ItemName = src[i].ItemName
                      /\ out[i].Quantity # Null
                      /\ src[i].Quantity = Null => out[i].Quantity = 0
                      /\ src[i].Quantity # Null => out[i].Quantity = src[i].Quantity

\* (1,'Laptop',10), (2,'Mouse',NULL) was loaded and (2,'Mouse',0) came out
C7_Witness ==
    \E b \in Backends :
        /\ After(b, "transform") /\ Prev(b).fn = "fillna_quantity"
        /\ work[b]["Inventory"].rows = <<LaptopItem, MouseItem>>
        /\ env[b]["df_inventory"].rows =
              <<LaptopItem, [ItemID |-> 2, ItemName |-> "Mouse", Quantity |-> 0]>>

\* row i of rows is the first one with its Name
FirstOfName(rows, i) == \A j \in 1..(i - 1) : rows[j].Name # rows[i].Name

\* C8: drop_duplicates leaves its own output unchanged, in the whole-row
\* form and in the subset=['Name'] form; the latter's output is the first
\* Employees row of each Name, in source order.
C8_DropDuplicatesIdempotent ==
    \A b \in Backends :
        /\ (After(b, "transform") /\ Prev(b).fn = "drop_duplicates") =>
              DropDuplicates(env[b]["df_clean"]) = env[b]["df_clean"]
        /\ (After(b, "transform") /\ Prev(b).fn = "drop_duplicates_name") =>
              LET src == db[b]["Employees"].rows
                  out == env[b]["etl_df"].rows
                  Firsts == {i \in 1..Len(src) : FirstOfName(src, i)}
              IN  /\ DropDuplicatesByName(env[b]["etl_df"]) = env[b]["etl_df"]
                  /\ Len(out) = Cardinality(Firsts)
                  /\ \A i \in Firsts : \E j \in 1..Len(out) : out[j].EmployeeID = src[i].EmployeeID
                  /\ \A j, k \in 1..Len(out) : j < k => out[j].EmployeeID < out[k].EmployeeID

\* the whole-row form has dropped a repeated Inventory row
C8_Witness ==
    \E b \in Backends :
        /\ After(b, "transform") /\ Prev(b).fn = "drop_duplicates"
        /\ Len(env[b]["df_clean"].rows) = 1
        /\ Len(db[b]["Inventory"].rows) = 2

\* the subset=['Name'] form has dropped the second employee of a Name
C8_WitnessByName ==
    \E b \in Backends :
        /\ After(b, "transform") /\ Prev(b).fn = "drop_duplicates_name"
        /\ Len(env[b]["etl_df"].rows) = 1
        /\ Len(db[b]["Employees"].rows) = 2

\* C9: Sales_Cleaned holds exactly the Sales rows whose Amount is at most
\* 2000, in order, each with its SaleID, Product and Amount unchanged and
\* Category 'Electronics'.
C9_SalesCleaned ==
    \A b \in Backends :
        JustStored(b, "Sales_Cleaned") =>
            LET src == db[b]["Sales"].rows
                T == db[b]["Sales_Cleaned"]
                out == T.rows
                Kept == {i \in 1..Len(src) :
                            src[i].Amount # Null /\ src[i].Amount <= OutlierThreshold}
            IN  /\ T.cols = <<"SaleID", "Product", "Amount", "Category">>
                /\ Len(out) = Cardinality(Kept)
                /\ \A i \in Kept : \E j \in 1..Len(out) :
                      out[j] = [SaleID |-> src[i].SaleID, Product |-> src[i].Product,
                                Amount |-> src[i].Amount, Category |-> "Electronics"]
                /\ \A j, k \in 1..Len(out) : j < k => out[j].SaleID < out[k].SaleID

\* Sales held (1, 'Laptop', 999.99) and an outlier; the result is
\* (1, 'Laptop', 999.99, 'Electronics')
C9_Witness ==
    \E b \in Backends :
        /\ JustStored(b, "Sales_Cleaned")
        /\ db[b]["Sales"].rows = <<LaptopSale, [SaleID |-> 2, Product |-> "Mouse", Amount |-> BigAmount]>>
        /\ db[b]["Sales_Cleaned"].rows =
              <<[SaleID |-> 1, Product |-> "Laptop", Amount |-> LaptopAmount,
                 Category |-> "Electronics"]>>

\* C10: run once from an empty database on a backend that does not fail, a
\* script raises at no step (and so goes on to its last step).
C10_NoStepRaises ==
    \A b \in Backends : (runs[b] = 1 /\ cause[b] # "env") => status[b] # "aborted"

\* the run of script b that has ended was a re-run, and no backend failure
\* has cut any run short
Rerun(b) == faults = 0 /\ Ended(b) /\ runs[b] >= 2

\* C11: a re-run of a script leaves the rows of Employees, Departments,
\* Sales and Inventory as the run before it left them, so that after any
\* number of runs they are as after the first.
C11_RerunIdempotent ==
    \A b \in Backends :
        Rerun(b) => \A t \in BaseTables : db[b][t].rows = atStart[b][t].rows

\* the script whose seeds name their keys: its re-run leaves the base tables
\* as they were
SqliteRerunIdempotent ==
    Rerun("sqlite") => \A t \in BaseTables : db["sqlite"][t].rows = atStart["sqlite"][t].rows

\* the SQLite script has been re-run over the Sales and Inventory rows its
\* first run left
SqliteRerunWitness ==
    /\ Rerun("sqlite")
    /\ db["sqlite"]["Sales"].rows =
          <<[SaleID |-> 1, Product |-> "Laptop", Amount |-> LaptopUpdatedAmount]>>
    /\ db["sqlite"]["Inventory"].rows =
          <<[ItemID |-> 1, ItemName |-> "Laptop", Quantity |-> LaptopUpdatedQuantity], MouseItem>>

RECURSIVE LoadedFrom(_, _, _)
\* the tables whose rows dataframe variable v holds after the first j
\* statements of program P: those of the query that was read into it,
\* followed through the transforms that produced it
LoadedFrom(P, j, v) ==
    IF j = 0 THEN {}
    ELSE IF P[j].op = "query" /\ P[j].into = v THEN QueryTables(P[j].query)
    ELSE IF P[j].op = "transform" /\ P[j].into = v THEN LoadedFrom(P, j - 1, P[j].from)
    ELSE LoadedFrom(P, j - 1, v)

\* C12: a dataframe store writes to a derived table, which is none of the
\* tables its dataframe was loaded from, and changes no other committed
\* table; reading a dataframe and transforming it change no committed table.
C12_StoreFrame ==
    [][\A b \in Backends :
          /\ At(b, "to_sql") =>
                /\ Instr(b).table \in DerivedTables
                /\ Instr(b).table \notin LoadedFrom(Program(b), pc[b] - 1, Instr(b).from)
                /\ \A t \in Tables \ {Instr(b).table} : db'[b][t] = db[b][t]
          /\ (At(b, "query") \/ At(b, "transform")) => db'[b] = db[b]
      ]_vars

\* Sales_Cleaned has been stored over what was there, from a Sales table
\* that holds rows, and Sales is as it was before the block
C12_Witness ==
    \E b \in Backends :
        /\ JustStored(b, "Sales_Cleaned")
        /\ LoadedFrom(Program(b), pc[b] - 2, Prev(b).from) = {"Sales"}
        /\ atStart[b]["Sales"].rows # <<>>
        /\ db[b]["Sales"] = atStart[b]["Sales"]
        /\ db[b]["Sales_Cleaned"] # atStart[b]["Sales_Cleaned"]

====
